---- MODULE Spec2Model ----
(***************************************************************************)
(* Model of scripts/update-version.mjs, the version updater of the Azure   *)
(* DevOps extensions repository: a global counter kept in .version-counter,*)
(* one manifest per extension, git history for change detection and the    *)
(* marketplace (tfx) as a floor for the patch number.                      *)
(*                                                                         *)
(* A version string is the sequence of its dot separated pieces, each      *)
(* piece a text that parseInt and Number read in their own ways.  The      *)
(* empty sequence stands for null / undefined / a value that is no string. *)
(***************************************************************************)
EXTENDS Integers, Sequences, FiniteSets, TLC

\* ------------------------------------------------------------------ bounds
NumUnits == 2       \* manifests azure-devops-extension-*.json found by readdirSync
MaxPatch == 2       \* largest PATCH a manifest starts with
MaxRuns == 2        \* runs of the script in one behaviour

Units == 1..NumUnits

NoCommit == 0       \* metadata.lastVersionCommit absent (null)
NoExit == 0 - 1     \* the process has not exited

\* -------------------------------------------------------- JavaScript values
\* a number as parseInt and Number return it: NaN, or the number n, which is
\* an integer or Infinity (above every integer of the model)
Infinity == 1000000000
NaN == [nan |-> TRUE, n |-> 0]
Num(n) == [nan |-> FALSE, n |-> n]
isNaN(x) == x.nan

\* x || 0 for a number x: NaN and 0 are falsy
OrZero(x) == IF isNaN(x) THEN 0 ELSE x.n

\* a + b for numbers that are not NaN: Infinity + 1 is Infinity
Add(a, b) == IF a = Infinity \/ b = Infinity THEN Infinity ELSE a + b

\* a piece of a version string: the decimal text of an integer ('5', '-1'),
\* such a text followed by characters that make it no numeric literal
\* ('2abc'), a text that is no number and does not start with one ('x'), the
\* empty text; and the numeric literals parseInt and Number read apart: an
\* integer m with an exponent e >= 0 ('2e3'), a literal with a radix prefix
\* and the value n ('0x10'), the text 'Infinity'
Dec(n) == [kind |-> "int", n |-> n]
Prefixed(n) == [kind |-> "prefixed", n |-> n]
Text == [kind |-> "text", n |-> 0]
Empty == [kind |-> "empty", n |-> 0]
Exponent(m, e) == [kind |-> "exponent", n |-> m, e |-> e]
Radix(n) == [kind |-> "radix", n |-> n]
InfinityText == [kind |-> "infinity", n |-> 0]

\* parseInt(piece, 10): the integer the text starts with (the 2 of '2e3', the
\* 0 of '0x10'), NaN without one
parseInt(piece) ==
  IF piece.kind \in {"int", "prefixed", "exponent"} THEN Num(piece.n)
  ELSE IF piece.kind = "radix" THEN Num(0)
  ELSE NaN

\* Number(piece): the value of the whole text when it is a numeric literal
\* (2000 for '2e3', 16 for '0x10', Infinity for 'Infinity'), 0 for the empty
\* text, NaN for every other text
Number(piece) ==
  CASE piece.kind \in {"int", "radix"} -> Num(piece.n)
    [] piece.kind = "exponent" -> Num(piece.n * 10^piece.e)
    [] piece.kind = "infinity" -> Num(Infinity)
    [] piece.kind = "empty" -> Num(0)
    [] OTHER -> NaN

\* `${n}` for a number n that is not NaN
NumberToString(n) == IF n = Infinity THEN InfinityText ELSE Dec(n)

\* the string `${a}.${b}.${c}` of the numbers a, b, c (of any number of them)
VersionString(ns) == [i \in 1..Len(ns) |-> NumberToString(ns[i])]

\* the value of a manifest property that holds a string: undefined when the
\* key is missing
undefined == [type |-> "undefined"]
Str(s) == [type |-> "string", value |-> s]

\* !x : undefined and the empty string are falsy
Falsy(x) == x = undefined \/ x = Str("")

\* String(x), the coercion RegExp.prototype.test and execFileSync apply
String(x) == IF x = undefined THEN "undefined" ELSE x.value

\* a manifest file whose content JSON.parse rejects (empty, cut off)
NotJSON == [json |-> FALSE]

\* ------------------------------------------------------------ input domains
\* manifest.version as found on disk: "1.0" (no PATCH yet) and "1.0.MaxPatch"
ManifestVersions == {VersionString(<<1, 0>>), VersionString(<<1, 0, MaxPatch>>)}

\* manifest.version values updateManifestVersion rejects: missing, "1",
\* "1.0.x"
MalformedVersions == {<<>>, VersionString(<<1>>), <<Dec(1), Dec(0), Text>>}

\* manifest.version values parseInt accepts and Number does not read the
\* same way, or that are below zero: "1.0.-1", "1.0.<MaxPatch>abc"
LenientVersions ==
  {VersionString(<<1, 0, 0 - 1>>), <<Dec(1), Dec(0), Prefixed(MaxPatch)>>}

\* what `tfx extension show --json` can produce
RegistryPatch == MaxPatch + 2
RegistryVersions ==
  {VersionString(<<1, 0, 1>>), VersionString(<<1, 0, RegistryPatch>>),
   VersionString(<<2, 0, RegistryPatch>>)}
RegistryResponses ==
  {[kind |-> "error", version |-> <<>>],
   [kind |-> "unparsable", version |-> <<>>],
   [kind |-> "json", version |-> <<>>]}
  \cup {[kind |-> "json", version |-> v] : v \in RegistryVersions}

\* contents of .version-counter
CounterFiles ==
  {[kind |-> "absent", n |-> 0]}
  \cup {[kind |-> "int", n |-> n] : n \in {0, MaxPatch + 1}}

\* PUBLISHER_ID: not set, a well-formed id, an id the pattern rejects
PublisherIds == {"", "my-publisher", "bad id;"}
\* the strings of the model that match /^[a-zA-Z0-9_-]+$/
ValidIds == {"my-publisher", "ext-1", "ext-2", "ext-3", "ext-4", "undefined"}
ExtensionId(u) ==
  CASE u = 1 -> "ext-1" [] u = 2 -> "ext-2" [] u = 3 -> "ext-3" [] OTHER -> "ext-4"

\* manifest.id as found on disk: well-formed, no id key, the empty string,
\* one the pattern rejects
ManifestIds(u) == {Str(ExtensionId(u)), undefined, Str(""), Str("bad id;")}

\* how a writeFileSync call can end: done; failed when opening the file, which
\* is then as it was; failed after open had truncated the file, which is then
\* empty or cut off; failed (in write or close) with the whole text in place
WriteOutcomes == {"ok", "notOpened", "truncated", "complete"}

VARIABLES
  counterFile,    \* contents of .version-counter
  manifest,       \* manifest[u]: the parsed JSON of unit u's manifest file,
                  \* NotJSON when the file does not parse
  head,           \* git: the HEAD revision (revisions are 1..head)
  lastTouch,      \* git: lastTouch[u] = newest revision touching u's tracked paths
  pc,             \* "idle" | "running" | "done" (exit 0) | "aborted" (exit 1)
  runs,           \* runs started so far
  publisherId,    \* process.env.PUBLISHER_ID of the current run
  forceUpdate,    \* process.env.FORCE_VERSION_UPDATE === 'true'
  gitAvailable,   \* whether git can be executed in the current run
  startCounter,   \* value readVersionCounter returned at the start of the run
  versionCounter, \* updateAllVersions: let versionCounter
  idx,            \* updateAllVersions: position of the for loop in manifestFiles
  results,        \* updateAllVersions: const results = []
  last,           \* locals of the most recent updateManifestVersion call
  counterWarning, \* the last writeVersionCounter of this run warned (write failed)
  prevRun,        \* what the current run found when it started: how the
                  \* previous run ended, the HEAD, the files on disk
  check,          \* the latest run of check-marketplace-version.mjs: its
                  \* arguments, the result of checkExtension, the exit code
  twin            \* an execution of the script on a repository of its own,
                  \* the one of the Version Numbering example: its files,
                  \* loop position and results

vars == <<counterFile, manifest, head, lastTouch, pc, runs, publisherId,
          forceUpdate, gitAvailable, startCounter, versionCounter, idx,
          results, last, counterWarning, prevRun, check,
                 twin>>

\* ------------------------------------------------------- helper arithmetic
Max(a, b) == IF a >= b THEN a ELSE b

\* ----------------------------------------------------------- Counter Store
\* readVersionCounter without the counter > 0 test
readVersionCounterAnyInteger(file) ==
  IF file.kind = "int" THEN file.n ELSE 1

\* readVersionCounter: parseInt of the file, 1 when the file is absent,
\* unreadable, not a number or not positive
readVersionCounter(file) ==
  IF file.kind = "int" /\ file.n > 0 THEN file.n ELSE 1

\* the content of a file after writeFileSync(path, text, 'utf8') ended as
\* outcome says: old is the content before, cut the content of a file left
\* empty or cut off
writeFileSync(old, text, cut, outcome) ==
  CASE outcome \in {"ok", "complete"} -> text
    [] outcome = "notOpened" -> old
    [] outcome = "truncated" -> cut

\* the number of characters of `${n}`, the decimal text of the integer n
RECURSIVE DecimalLength(_)
DecimalLength(n) ==
  IF n < 0 THEN 1 + DecimalLength(0 - n)
  ELSE IF n < 10 THEN 1
  ELSE 1 + DecimalLength(n \div 10)

\* .version-counter holding the first `written` characters of `${n}\n`:
\* nothing or a lone '-' (parseInt gives NaN), the leading digits of n, the
\* whole of n without or with the line end
CutCounterFile(n, written) ==
  LET digits == IF n < 0 THEN written - 1 ELSE written
      size == IF n < 0 THEN DecimalLength(n) - 1 ELSE DecimalLength(n)
      abs == IF n < 0 THEN 0 - n ELSE n
      leading == abs \div 10^(size - digits)
  IN  IF digits <= 0 THEN [kind |-> "text", n |-> 0]
      ELSE IF digits >= size THEN [kind |-> "int", n |-> n]
      ELSE [kind |-> "int", n |-> IF n < 0 THEN 0 - leading ELSE leading]

\* how many characters of `${counter}\n` a write that ends as outcome can
\* have stored when it fails after the file was opened: none, or any number
\* of the digits
CutLengths(outcome, counter) ==
  IF outcome = "truncated" THEN 0..DecimalLength(counter) ELSE {0}

\* writeVersionCounter: writeFileSync of `${counter}\n` in a try/catch; a
\* failed write only warns, and the file is then as the failed write left
\* it: a write that failed after the file was opened has stored the first
\* `written` characters of the text
writeVersionCounter(counter, outcome, written, file) ==
  writeFileSync(file, [kind |-> "int", n |-> counter],
                CutCounterFile(counter, written), outcome)

\* ---------------------------------------------------------- Registry Client
\* getMarketplaceVersion without the validIdPattern test
getMarketplaceVersionNoValidation(pubId, extensionId, resp) ==
  IF pubId = "" \/ Falsy(extensionId) THEN <<>>
  ELSE IF resp.kind = "json" THEN resp.version
  ELSE <<>>

\* getMarketplaceVersion whose catch returns a placeholder string, not null
getMarketplaceVersionPlaceholder(pubId, extensionId, resp) ==
  IF pubId = "" \/ Falsy(extensionId) THEN <<>>
  ELSE IF pubId \notin ValidIds \/ String(extensionId) \notin ValidIds THEN <<>>
  ELSE IF resp.kind = "json" THEN resp.version
  ELSE <<Text>>

\* getMarketplaceVersion: the version string of data.versions[0], or null
getMarketplaceVersion(pubId, extensionId, resp) ==
  IF pubId = "" \/ Falsy(extensionId) THEN <<>>
  ELSE IF pubId \notin ValidIds \/ String(extensionId) \notin ValidIds THEN <<>>
  ELSE IF resp.kind = "json" THEN resp.version
  ELSE <<>>

\* whether getMarketplaceVersion gets as far as running tfx (line 156): both
\* identifiers are present and match /^[a-zA-Z0-9_-]+$/
tfxInvoked(pubId, extensionId) ==
  /\ pubId # ""
  /\ ~Falsy(extensionId)
  /\ pubId \in ValidIds
  /\ String(extensionId) \in ValidIds

\* whether getMarketplaceVersion logs a warning: its only console.error is
\* the one for an identifier that fails the pattern (line 150)
LookupWarning(pubId, extensionId) ==
  /\ pubId # ""
  /\ ~Falsy(extensionId)
  /\ (pubId \notin ValidIds \/ String(extensionId) \notin ValidIds)

\* whether the try block of getMarketplaceVersion threw (tfx failed, or its
\* output did not parse) and the catch returned null without a message
LookupThrew(pubId, extensionId, resp) ==
  tfxInvoked(pubId, extensionId) /\ resp.kind # "json"

\* the "Marketplace version:" line updateManifestVersion prints (316, 329)
MarketplaceLine(marketplaceVersion) ==
  IF marketplaceVersion # <<>> THEN "version" ELSE "Not published yet"

\* version.split('.').map(Number)[i] || 0 : a missing, NaN or zero
\* component reads as 0
VersionPart(parts, i) ==
  IF i <= Len(parts) THEN OrZero(Number(parts[i])) ELSE 0

\* parseVersion: version.split('.').map(Number) with || 0 defaults
parseVersion(version) ==
  [major |-> VersionPart(version, 1),
   minor |-> VersionPart(version, 2),
   patch |-> VersionPart(version, 3)]

\* ------------------------------------------------------ Marketplace Checker
\* compareVersions looking at the PATCH component only
compareVersionsPatchOnly(version1, version2) ==
  IF VersionPart(version1, 3) < VersionPart(version2, 3) THEN 0 - 1
  ELSE IF VersionPart(version1, 3) > VersionPart(version2, 3) THEN 1
  ELSE 0

\* compareVersions of check-marketplace-version.mjs: the first component that
\* differs decides, a missing or NaN component reading as 0
compareVersions(version1, version2) ==
  LET n == Max(Len(version1), Len(version2))
      differing == {i \in 1..n : VersionPart(version1, i) # VersionPart(version2, i)}
  IN  IF differing = {} THEN 0
      ELSE LET i == CHOOSE k \in differing : \A j \in differing : k <= j
           IN  IF VersionPart(version1, i) < VersionPart(version2, i)
               THEN 0 - 1 ELSE 1

\* getMarketplaceVersion of check-marketplace-version.mjs: the pattern test
\* alone (a missing id passes it as the text 'undefined'), tfx, JSON.parse
\* (no entity decoding); null on every failure
checkerMarketplaceVersion(pubId, extensionId, resp) ==
  IF pubId \notin ValidIds \/ String(extensionId) \notin ValidIds THEN <<>>
  ELSE IF resp.kind = "json" THEN resp.version
  ELSE <<>>

\* whether the try block of the checker's getMarketplaceVersion threw
checkerLookupThrew(pubId, extensionId, resp) ==
  /\ pubId \in ValidIds
  /\ String(extensionId) \in ValidIds
  /\ resp.kind # "json"

\* checkExtension(manifestPath, publisherId) on the manifest m: the object it
\* returns, or threw when the manifest is not JSON (line 100) and when
\* compareVersions is handed a manifest without a version (localVersion.split
\* of undefined)
checkExtension(m, pubId, resp) ==
  IF m = NotJSON
  THEN [localVersion |-> <<>>, marketplaceVersion |-> <<>>,
        needsPublish |-> FALSE, reason |-> "none", threw |-> TRUE]
  ELSE
  LET marketplaceVersion == checkerMarketplaceVersion(pubId, m.id, resp)
      noResult == [localVersion |-> m.version, marketplaceVersion |-> <<>>,
                   needsPublish |-> TRUE, reason |-> "none", threw |-> FALSE]
  IN  IF pubId = ""
      THEN [noResult EXCEPT !.reason = "No publisher ID provided"]
      ELSE IF marketplaceVersion = <<>>
      THEN [noResult EXCEPT !.reason = "Not yet published"]
      ELSE IF m.version = <<>>
      THEN [noResult EXCEPT !.marketplaceVersion = marketplaceVersion,
                            !.needsPublish = FALSE, !.threw = TRUE]
      ELSE LET comparison == compareVersions(m.version, marketplaceVersion)
           IN  [localVersion |-> m.version,
                marketplaceVersion |-> marketplaceVersion,
                needsPublish |-> comparison > 0,
                reason |-> IF comparison > 0 THEN "Local version is newer"
                           ELSE IF comparison = 0 THEN "Versions are equal"
                           ELSE "Local version is older (downgrade not allowed)",
                threw |-> FALSE]

\* main of check-marketplace-version.mjs: exit 2 without --manifest, for a
\* manifest that does not exist and when checkExtension throws; otherwise
\* exit 0 when result.needsPublish and 1 when not
checkerExitCode(argKind, result) ==
  IF argKind # "file" THEN 2
  ELSE IF result.threw THEN 2
  ELSE IF result.needsPublish THEN 0
  ELSE 1

\* ---------------------------------------------------------- Change Detector
\* getCurrentCommit that never obtains the hash
getCurrentCommitNull(gitOk, headRev) == NoCommit

\* getCurrentCommit resolving the parent of HEAD (rev-parse HEAD~1)
getCurrentCommitParent(gitOk, headRev) ==
  IF gitOk THEN headRev - 1 ELSE NoCommit

\* getCurrentCommit: git rev-parse HEAD, null when git fails
getCurrentCommit(gitOk, headRev) ==
  IF gitOk THEN headRev ELSE NoCommit

\* hasExtensionChanges that ignores the output of git log
hasExtensionChangesAlways(lastCommit, gitOk, headRev, touched) == TRUE

\* hasExtensionChanges with the catch block returning false: fail closed
hasExtensionChangesFailClosed(lastCommit, gitOk, headRev, touched) ==
  IF lastCommit = NoCommit THEN TRUE
  ELSE IF ~gitOk \/ lastCommit \notin 1..headRev THEN FALSE
  ELSE touched > lastCommit

\* hasExtensionChanges taking a missing lastCommit as "nothing changed"
hasExtensionChangesNoBaseline(lastCommit, gitOk, headRev, touched) ==
  IF lastCommit = NoCommit THEN FALSE
  ELSE IF ~gitOk \/ lastCommit \notin 1..headRev THEN TRUE
  ELSE touched > lastCommit

\* hasExtensionChanges: git log lastCommit..HEAD -- paths is non-empty;
\* true when no commit is recorded and true when git throws (git cannot be
\* run, or the recorded hash is not a revision of the history)
hasExtensionChanges(lastCommit, gitOk, headRev, touched) ==
  IF lastCommit = NoCommit THEN TRUE
  ELSE IF ~gitOk \/ lastCommit \notin 1..headRev THEN TRUE
  ELSE touched > lastCommit

\* ------------------------------------------------------------ tracked paths
\* A path is the sequence of its '/'-separated parts ('apps/hub/' is
\* <<"apps", "hub", "">>, the empty string is <<"">>).  A manifest read from
\* a file without a files key is a record without a files field.
\* the name of unit u's manifest file, which is its path relative to rootDir
ManifestFileName(u) ==
  CASE u = 1 -> "azure-devops-extension-1.json"
    [] u = 2 -> "azure-devops-extension-2.json"
    [] u = 3 -> "azure-devops-extension-3.json"
    [] OTHER -> "azure-devops-extension-4.json"

\* manifestRepoPath (lines 275-278): manifestPath with rootDir stripped
manifestRepoPath(u) == <<ManifestFileName(u)>>

\* getExtensionPaths (lines 108-133): for every entry of manifest.files with
\* a non-empty string path, the app directory of a path under apps/, the
\* path itself otherwise; nothing when files is missing or not an array
getExtensionPaths(m) ==
  IF "files" \in DOMAIN m /\ m.files.type = "array"
  THEN LET usable == {i \in 1..Len(m.files.items) :
                        /\ "path" \in DOMAIN m.files.items[i]
                        /\ m.files.items[i].path # <<"">>}
           appPath(path) ==
             IF Len(path) >= 2 /\ path[1] = "apps"
             THEN <<path[1], path[2], "">>
             ELSE path
       IN  {appPath(m.files.items[i].path) : i \in usable}
  ELSE {}

\* extensionPaths with the manifest file itself left out
extensionPathsFilesOnly(m, u) == getExtensionPaths(m)

\* extensionPaths as handed to hasExtensionChanges (lines 270-281): the
\* paths of the files list and always the manifest file itself
extensionPaths(m, u) == getExtensionPaths(m) \cup {manifestRepoPath(u)}

\* -------------------------------------------------------- Version Reconciler
\* the checks of updateManifestVersion on manifest.version (lines 249-268)
InvalidManifestVersion(version) ==
  \/ version = <<>>
  \/ Len(version) < 2
  \/ isNaN(parseInt(version[1]))
  \/ isNaN(parseInt(version[2]))
  \/ (Len(version) >= 3 /\ isNaN(parseInt(version[3])))

\* currentPatch: parseInt of the third piece, 0 when the version is
\* MAJOR.MINOR
CurrentPatch(version) ==
  IF Len(version) >= 3 THEN parseInt(version[3]).n ELSE 0

\* NewPatch without the unit's own patch: Math.max dropped, the counter alone
NewPatchCounterOnly(counter, currentPatch, major, minor, marketplaceVersion) ==
  LET marketplaceParsed == parseVersion(marketplaceVersion)
  IN  IF /\ marketplaceVersion # <<>>
         /\ major = marketplaceParsed.major
         /\ minor = marketplaceParsed.minor
         /\ counter <= marketplaceParsed.patch
      THEN Add(marketplaceParsed.patch, 1)
      ELSE counter

\* NewPatch with the marketplace comparison off by one: < instead of <=
NewPatchStrictFloor(counter, currentPatch, major, minor, marketplaceVersion) ==
  LET patch == Max(counter, currentPatch + 1)
      marketplaceParsed == parseVersion(marketplaceVersion)
  IN  IF /\ marketplaceVersion # <<>>
         /\ major = marketplaceParsed.major
         /\ minor = marketplaceParsed.minor
         /\ patch < marketplaceParsed.patch
      THEN Add(marketplaceParsed.patch, 1)
      ELSE patch

\* NewPatch taking the unit's own patch as it is: currentPatch, not + 1
NewPatchOwnPatchKept(counter, currentPatch, major, minor, marketplaceVersion) ==
  LET patch == Max(counter, currentPatch)
      marketplaceParsed == parseVersion(marketplaceVersion)
  IN  IF /\ marketplaceVersion # <<>>
         /\ major = marketplaceParsed.major
         /\ minor = marketplaceParsed.minor
         /\ patch <= marketplaceParsed.patch
      THEN Add(marketplaceParsed.patch, 1)
      ELSE patch

\* NewPatch with the test on major and minor left out
NewPatchAnyMajorMinor(counter, currentPatch, major, minor, marketplaceVersion) ==
  LET patch == Max(counter, currentPatch + 1)
      marketplaceParsed == parseVersion(marketplaceVersion)
  IN  IF /\ marketplaceVersion # <<>>
         /\ patch <= marketplaceParsed.patch
      THEN Add(marketplaceParsed.patch, 1)
      ELSE patch

\* lines 307-330: the counter, the unit's own patch and the marketplace floor
NewPatch(counter, currentPatch, major, minor, marketplaceVersion) ==
  LET patch == Max(counter, currentPatch + 1)
      marketplaceParsed == parseVersion(marketplaceVersion)
  IN  IF /\ marketplaceVersion # <<>>
         /\ major = marketplaceParsed.major
         /\ minor = marketplaceParsed.minor
         /\ patch <= marketplaceParsed.patch
      THEN Add(marketplaceParsed.patch, 1)
      ELSE patch

\* Outcome with the failure of writeFileSync swallowed (as in a try/catch)
OutcomeWriteFailureSwallowed(invalidVersion, hasChanges, manifestWriteOk) ==
  IF invalidVersion THEN "threw"
  ELSE IF ~hasChanges THEN "skipped"
  ELSE "updated"

\* Outcome with the version checks only skipping the unit instead of throwing
OutcomeInvalidVersionSkipped(invalidVersion, hasChanges, manifestWriteOk) ==
  IF invalidVersion THEN "skipped"
  ELSE IF ~hasChanges THEN "skipped"
  ELSE IF ~manifestWriteOk THEN "threw"
  ELSE "updated"

\* how a call ends: it throws on an invalid version (lines 251-268) and when
\* writeFileSync fails (line 358), returns updated: false when nothing
\* changed (line 297), and returns updated: true otherwise
Outcome(invalidVersion, hasChanges, manifestWriteOk) ==
  IF invalidVersion THEN "threw"
  ELSE IF ~hasChanges THEN "skipped"
  ELSE IF ~manifestWriteOk THEN "threw"
  ELSE "updated"

\* the locals of a call that has not computed anything (yet)
NoLocals(u) ==
  [unit |-> u, counter |-> 0, hasChanges |-> FALSE, marketplaceVersion |-> <<>>,
   currentPatch |-> 0, patch |-> 0, writeFailed |-> FALSE, outcome |-> "none",
   tfxInvoked |-> FALSE, lookupThrew |-> FALSE, lookupWarning |-> FALSE,
   marketplaceLine |-> "none", extensionPaths |-> {}]

\* the result of a call that threw before it had read the manifest
NoResult ==
  [extensionId |-> undefined, oldVersion |-> <<>>, newVersion |-> <<>>,
   updated |-> FALSE]

\* updateManifestVersion(manifestPath, versionCounter, publisherId, forceUpdate)
\* on unit u, with the answers of git, tfx and the file system as inputs.
\* outcome: how the call ended; manifest: the manifest file afterwards;
\* result: the object it returns; locals: its local variables at that point.
\* manifestWrite: how the writeFileSync of line 358 ends when it is reached.
updateManifestVersion(u, m, counter, pubId, force, gitOk, headRev, touched, resp, manifestWrite) ==
  IF m = NotJSON
  THEN [outcome |-> "threw", manifest |-> m,
        locals |-> [NoLocals(u) EXCEPT !.counter = counter, !.outcome = "threw"],
        result |-> NoResult]
  ELSE IF InvalidManifestVersion(m.version)
  THEN [outcome |-> Outcome(TRUE, FALSE, manifestWrite = "ok"), manifest |-> m,
        locals |-> [NoLocals(u) EXCEPT !.counter = counter, !.outcome = "threw"],
        result |-> [extensionId |-> m.id, oldVersion |-> m.version,
                    newVersion |-> m.version, updated |-> FALSE]]
  ELSE IF extensionPaths(m, u) = {}
  THEN [outcome |-> "threw", manifest |-> m,
        locals |-> [NoLocals(u) EXCEPT !.counter = counter, !.outcome = "threw"],
        result |-> [extensionId |-> m.id, oldVersion |-> m.version,
                    newVersion |-> m.version, updated |-> FALSE]]
  ELSE
    LET major == parseInt(m.version[1]).n
        minor == parseInt(m.version[2]).n
        currentPatch == CurrentPatch(m.version)
        hasChanges ==
          force \/ hasExtensionChanges(m.lastVersionCommit, gitOk, headRev, touched)
        outcome == Outcome(FALSE, hasChanges, manifestWrite = "ok")
        marketplaceVersion ==
          IF hasChanges THEN getMarketplaceVersion(pubId, m.id, resp) ELSE <<>>
        patch ==
          IF hasChanges
          THEN NewPatch(counter, currentPatch, major, minor, marketplaceVersion)
          ELSE 0
        newVersion ==
          IF hasChanges THEN VersionString(<<major, minor, patch>>) ELSE m.version
        currentCommit == getCurrentCommit(gitOk, headRev)
        written ==
          [m EXCEPT !.version = newVersion,
                    !.lastVersionCommit =
                      IF currentCommit # NoCommit THEN currentCommit ELSE @]
    IN  [outcome |-> outcome,
         manifest |-> IF hasChanges
                      THEN writeFileSync(m, written, NotJSON, manifestWrite)
                      ELSE m,
         locals |-> [unit |-> u, counter |-> counter, hasChanges |-> hasChanges,
                     marketplaceVersion |-> marketplaceVersion,
                     currentPatch |-> currentPatch, patch |-> patch,
                     writeFailed |-> hasChanges /\ manifestWrite # "ok",
                     outcome |-> outcome,
                     tfxInvoked |-> hasChanges /\ tfxInvoked(pubId, m.id),
                     lookupThrew |-> hasChanges /\ LookupThrew(pubId, m.id, resp),
                     lookupWarning |-> hasChanges /\ LookupWarning(pubId, m.id),
                     marketplaceLine |->
                       IF hasChanges THEN MarketplaceLine(marketplaceVersion)
                       ELSE "none",
                     extensionPaths |-> extensionPaths(m, u)],
         result |-> [extensionId |-> m.id, oldVersion |-> m.version,
                     newVersion |-> newVersion, updated |-> outcome = "updated"]]

\* NextCounter with the increment forgotten
NextCounterNoIncrement(counter, result) == counter

\* NextCounter incrementing for skipped units too
NextCounterAlways(counter, result) == counter + 1

\* NextCounter moving the counter past the patch just assigned
NextCounterPastPatch(counter, result) ==
  IF result.updated THEN CurrentPatch(result.newVersion) + 1 ELSE counter

\* the counter after a result: versionCounter++ when the unit was updated
NextCounter(counter, result) ==
  IF result.updated THEN counter + 1 ELSE counter

\* ------------------------------------------------------------ initial state
\* check-marketplace-version.mjs has not been run
NoCheck ==
  [kind |-> "none", unit |-> 0, publisherId |-> "", lookupThrew |-> FALSE,
   result |-> [localVersion |-> <<>>, marketplaceVersion |-> <<>>,
               needsPublish |-> FALSE, reason |-> "none", threw |-> FALSE],
   exitCode |-> NoExit]

NoRun ==
  [pc |-> "none", head |-> 0, gitAvailable |-> TRUE,
   counterFile |-> [kind |-> "absent", n |-> 0], manifest |-> <<>>]

\* the execution on the example repository has not been started
NoTwin ==
  [pc |-> "none", publisherId |-> "", forceUpdate |-> FALSE,
   gitAvailable |-> TRUE, head |-> 0, lastTouch |-> <<>>, registry |-> <<>>,
   manifestFiles |-> <<>>, idx |-> 1, manifest |-> <<>>,
   counterFile |-> [kind |-> "absent", n |-> 0], startCounter |-> 1,
   versionCounter |-> 1, results |-> <<>>]

\* the repository before a run: a counter file, the manifests, two commits of
\* which the second touched every unit
InitRepo(files, manifests) ==
  /\ counterFile \in files
  /\ manifest \in manifests
  /\ head = 2
  /\ lastTouch = [u \in Units |-> 2]
  /\ pc = "idle"
  /\ runs = 0
  /\ publisherId = ""
  /\ forceUpdate = FALSE
  /\ gitAvailable = TRUE
  /\ startCounter = 1
  /\ versionCounter = 1
  /\ idx = 1
  /\ results = <<>>
  /\ last = NoLocals(1)
  /\ counterWarning = FALSE
  /\ prevRun = NoRun
  /\ check = NoCheck
  /\ twin = NoTwin

\* one manifest per unit, with the unit's id, a version of versions and a
\* recorded commit of commits
ManifestsWith(versions, commits) ==
  {[u \in Units |-> [id |-> Str(ExtensionId(u)), version |-> vs[u],
                     lastVersionCommit |-> cs[u]]] :
     vs \in [Units -> versions], cs \in [Units -> commits]}

InitWith(files, versions, commits) ==
  InitRepo(files, ManifestsWith(versions, commits))

Init == InitWith(CounterFiles, ManifestVersions, {NoCommit, 1, 2})

\* ------------------------------------------------------------------ actions
\* The script is started.  Since the previous run the commits of one push
\* have landed: together they touch the tracked paths of the units in S
\* (S = {} : nothing was committed).  Then updateAllVersions up to its for
\* loop: the environment is read, the counter is read, the manifests are
\* listed; without any manifest it throws (lines 405-407) and main exits 1.
StartRun(pubIds, forces, gits, pushes, maxRuns) ==
  /\ pc # "running"
  /\ runs < maxRuns
  /\ \E p \in pubIds, f \in forces, g \in gits :
       /\ publisherId' = p
       /\ forceUpdate' = f
       /\ gitAvailable' = g
  /\ \E S \in pushes :
       /\ head' = IF S = {} THEN head ELSE head + 1
       /\ lastTouch' = [u \in Units |-> IF u \in S THEN head + 1 ELSE lastTouch[u]]
  /\ prevRun' = [pc |-> IF runs = 0 THEN "none" ELSE pc, head |-> head,
                 gitAvailable |-> gitAvailable, counterFile |-> counterFile,
                 manifest |-> manifest]
  /\ startCounter' = readVersionCounter(counterFile)
  /\ versionCounter' = readVersionCounter(counterFile)
  /\ idx' = 1
  /\ results' = <<>>
  /\ last' = NoLocals(1)
  /\ counterWarning' = FALSE
  /\ pc' = IF Len(manifest) = 0 THEN "aborted" ELSE "running"
  /\ runs' = runs + 1
  /\ UNCHANGED <<counterFile, manifest, check, twin>>

\* ProcessUnit whose catch logs the error without rethrowing it: the loop
\* goes on to the next manifest
ProcessUnitNoRethrow(responses, manifestWrites, counterWrites) ==
  /\ pc = "running"
  /\ idx <= Len(manifest)
  /\ \E resp \in responses, manifestWrite \in manifestWrites,
        counterWrite \in counterWrites :
       LET r == updateManifestVersion(idx, manifest[idx], versionCounter,
                                      publisherId, forceUpdate, gitAvailable,
                                      head, lastTouch[idx], resp, manifestWrite)
       IN  /\ last' = r.locals
           /\ manifest' = [manifest EXCEPT ![idx] = r.manifest]
           /\ results' = Append(results, r.result)
           /\ versionCounter' = NextCounter(versionCounter, r.result)
           /\ \E written \in CutLengths(counterWrite, NextCounter(versionCounter, r.result)) :
                counterFile' =
                  IF r.result.updated
                  THEN writeVersionCounter(NextCounter(versionCounter, r.result),
                                           counterWrite, written, counterFile)
                  ELSE counterFile
           /\ counterWarning' =
                IF r.result.updated THEN counterWrite # "ok" ELSE counterWarning
           /\ idx' = idx + 1
           /\ pc' = pc
  /\ UNCHANGED <<head, lastTouch, runs, publisherId, forceUpdate, gitAvailable,
                 startCounter, prevRun, check,
                 twin>>

\* ProcessUnit whose catch leaves the loop instead of rethrowing: the summary
\* is printed over the results gathered so far
ProcessUnitBreakOnError(responses, manifestWrites, counterWrites) ==
  /\ pc = "running"
  /\ idx <= Len(manifest)
  /\ \E resp \in responses, manifestWrite \in manifestWrites,
        counterWrite \in counterWrites :
       LET r == updateManifestVersion(idx, manifest[idx], versionCounter,
                                      publisherId, forceUpdate, gitAvailable,
                                      head, lastTouch[idx], resp, manifestWrite)
       IN  /\ last' = r.locals
           /\ IF r.outcome = "threw"
              THEN /\ idx' = Len(manifest) + 1
                   /\ manifest' = [manifest EXCEPT ![idx] = r.manifest]
                   /\ UNCHANGED <<results, versionCounter, counterFile,
                                  counterWarning, pc>>
              ELSE /\ manifest' = [manifest EXCEPT ![idx] = r.manifest]
                   /\ results' = Append(results, r.result)
                   /\ versionCounter' = NextCounter(versionCounter, r.result)
                   /\ \E written \in CutLengths(counterWrite, NextCounter(versionCounter, r.result)) :
                        counterFile' =
                          IF r.result.updated
                          THEN writeVersionCounter(NextCounter(versionCounter, r.result),
                                                   counterWrite, written, counterFile)
                          ELSE counterFile
                   /\ counterWarning' =
                        IF r.result.updated THEN counterWrite # "ok" ELSE counterWarning
                   /\ idx' = idx + 1
                   /\ pc' = pc
  /\ UNCHANGED <<head, lastTouch, runs, publisherId, forceUpdate, gitAvailable,
                 startCounter, prevRun, check,
                 twin>>

\* ProcessUnit whose catch restores the files the run found before rethrowing
ProcessUnitRollback(responses, manifestWrites, counterWrites) ==
  /\ pc = "running"
  /\ idx <= Len(manifest)
  /\ \E resp \in responses, manifestWrite \in manifestWrites,
        counterWrite \in counterWrites :
       LET r == updateManifestVersion(idx, manifest[idx], versionCounter,
                                      publisherId, forceUpdate, gitAvailable,
                                      head, lastTouch[idx], resp, manifestWrite)
       IN  /\ last' = r.locals
           /\ IF r.outcome = "threw"
              THEN /\ pc' = "aborted"
                   /\ manifest' = prevRun.manifest
                   /\ counterFile' = prevRun.counterFile
                   /\ UNCHANGED <<results, versionCounter, counterWarning, idx>>
              ELSE /\ manifest' = [manifest EXCEPT ![idx] = r.manifest]
                   /\ results' = Append(results, r.result)
                   /\ versionCounter' = NextCounter(versionCounter, r.result)
                   /\ \E written \in CutLengths(counterWrite, NextCounter(versionCounter, r.result)) :
                        counterFile' =
                          IF r.result.updated
                          THEN writeVersionCounter(NextCounter(versionCounter, r.result),
                                                   counterWrite, written, counterFile)
                          ELSE counterFile
                   /\ counterWarning' =
                        IF r.result.updated THEN counterWrite # "ok" ELSE counterWarning
                   /\ idx' = idx + 1
                   /\ pc' = pc
  /\ UNCHANGED <<head, lastTouch, runs, publisherId, forceUpdate, gitAvailable,
                 startCounter, prevRun, check, twin>>

\* ProcessUnit with a writeVersionCounter that lets the error of its write
\* through: the run ends there
ProcessUnitCounterWriteFatal(responses, manifestWrites, counterWrites) ==
  /\ pc = "running"
  /\ idx <= Len(manifest)
  /\ \E resp \in responses, manifestWrite \in manifestWrites,
        counterWrite \in counterWrites :
       LET r == updateManifestVersion(idx, manifest[idx], versionCounter,
                                      publisherId, forceUpdate, gitAvailable,
                                      head, lastTouch[idx], resp, manifestWrite)
       IN  /\ last' = r.locals
           /\ IF r.outcome = "threw"
              THEN /\ pc' = "aborted"
                   /\ manifest' = [manifest EXCEPT ![idx] = r.manifest]
                   /\ UNCHANGED <<results, versionCounter, counterFile,
                                  counterWarning, idx>>
              ELSE /\ manifest' = [manifest EXCEPT ![idx] = r.manifest]
                   /\ results' = Append(results, r.result)
                   /\ versionCounter' = NextCounter(versionCounter, r.result)
                   /\ \E written \in CutLengths(counterWrite, NextCounter(versionCounter, r.result)) :
                        counterFile' =
                          IF r.result.updated
                          THEN writeVersionCounter(NextCounter(versionCounter, r.result),
                                                   counterWrite, written, counterFile)
                          ELSE counterFile
                   /\ counterWarning' =
                        IF r.result.updated THEN counterWrite # "ok" ELSE counterWarning
                   /\ idx' = idx + 1
                   /\ pc' = IF r.result.updated /\ counterWrite # "ok"
                            THEN "aborted" ELSE pc
  /\ UNCHANGED <<head, lastTouch, runs, publisherId, forceUpdate, gitAvailable,
                 startCounter, prevRun, check, twin>>

\* one iteration of the for loop of updateAllVersions: updateManifestVersion
\* on manifestFiles[idx], results.push, versionCounter++ and
\* writeVersionCounter when the unit was updated; a throw ends the run, the
\* manifest being as the call that threw left it.  manifestWrite and
\* counterWrite are how the two writeFileSync calls end, written how much of
\* its text a counter write that failed half-way has stored.
ProcessUnit(responses, manifestWrites, counterWrites) ==
  /\ pc = "running"
  /\ idx <= Len(manifest)
  /\ \E resp \in responses, manifestWrite \in manifestWrites,
        counterWrite \in counterWrites :
       LET r == updateManifestVersion(idx, manifest[idx], versionCounter,
                                      publisherId, forceUpdate, gitAvailable,
                                      head, lastTouch[idx], resp, manifestWrite)
       IN  /\ last' = r.locals
           /\ IF r.outcome = "threw"
              THEN /\ pc' = "aborted"
                   /\ manifest' = [manifest EXCEPT ![idx] = r.manifest]
                   /\ UNCHANGED <<results, versionCounter, counterFile,
                                  counterWarning, idx>>
              ELSE /\ manifest' = [manifest EXCEPT ![idx] = r.manifest]
                   /\ results' = Append(results, r.result)
                   /\ versionCounter' = NextCounter(versionCounter, r.result)
                   /\ \E written \in CutLengths(counterWrite, NextCounter(versionCounter, r.result)) :
                        counterFile' =
                          IF r.result.updated
                          THEN writeVersionCounter(NextCounter(versionCounter, r.result),
                                                   counterWrite, written, counterFile)
                          ELSE counterFile
                   /\ counterWarning' =
                        IF r.result.updated THEN counterWrite # "ok" ELSE counterWarning
                   /\ idx' = idx + 1
                   /\ pc' = pc
  /\ UNCHANGED <<head, lastTouch, runs, publisherId, forceUpdate, gitAvailable,
                 startCounter, prevRun, check,
                 twin>>

\* the loop is over: the summary is printed and the process exits with 0
Finish ==
  /\ pc = "running"
  /\ idx > Len(manifest)
  /\ pc' = "done"
  /\ UNCHANGED <<counterFile, manifest, head, lastTouch, runs, publisherId,
                 forceUpdate, gitAvailable, startCounter, versionCounter, idx,
                 results, last, counterWarning, prevRun, check,
                 twin>>

\* main (lines 466-473): process.exit(0) when updateAllVersions returns,
\* process.exit(1) when it throws; defined for a run that has ended
ExitCode(p) == CASE p = "done" -> 0 [] p = "aborted" -> 1

\* one run of the script from any repository state: environment, history,
\* marketplace answers and the manifest write free, the counter file writable
Next ==
  \/ StartRun(PublisherIds, BOOLEAN, BOOLEAN, {{}}, 1)
  \/ ProcessUnit(RegistryResponses, {"ok", "truncated"}, {"ok"})
  \/ Finish

Spec == Init /\ [][Next]_vars

\* a repository the script has never run on (no counter file, every manifest
\* at "1.0" with no metadata),
\* then up to MaxRuns runs with commits landing between them; PUBLISHER_ID
\* is not set, so the marketplace is never asked
InitRuns ==
  InitWith({[kind |-> "absent", n |-> 0]}, {VersionString(<<1, 0>>)}, {NoCommit})

NextRuns ==
  \/ StartRun({""}, BOOLEAN, BOOLEAN, SUBSET Units, MaxRuns)
  \/ ProcessUnit({[kind |-> "error", version |-> <<>>]}, {"ok"}, WriteOutcomes)
  \/ Finish

SpecRuns == InitRuns /\ [][NextRuns]_vars

\* the positions of results whose unit was updated (results[i] is unit i)
UpdatedUnits == {i \in 1..Len(results) : results[i].updated}

\* a directory without any manifest file, and manifests some of which are
\* not JSON or have a malformed or an odd version
FatalManifests ==
  {<<>>}
  \cup {[u \in Units |-> IF u \in broken THEN NotJSON ELSE ms[u]] :
          ms \in ManifestsWith(ManifestVersions \cup MalformedVersions
                                 \cup LenientVersions, {NoCommit, 2}),
          broken \in SUBSET Units}

\* one run over such a repository; units with a recorded commit are skipped,
\* the others updated; both file writes can fail
InitFatal == InitRepo(CounterFiles, FatalManifests)

NextFatal ==
  \/ StartRun({""}, BOOLEAN, {TRUE}, {{}}, 1)
  \/ ProcessUnit({[kind |-> "error", version |-> <<>>]}, WriteOutcomes, WriteOutcomes)
  \/ Finish

SpecFatal == InitFatal /\ [][NextFatal]_vars

\* ---------------------------------------------------- the marketplace checker
\* the --manifest argument: not given, a path that does not exist, unit u's
\* manifest
CheckerArgs ==
  {[kind |-> "absent", unit |-> 0], [kind |-> "nofile", unit |-> 0]}
  \cup {[kind |-> "file", unit |-> u] : u \in Units}

\* manifest versions for the checker: below, equal to and above the published
\* versions, a manifest without a version, "1.0.<MaxPatch>abc" and "", and
\* versions Number reads as above, equal to and far above the published ones
\* where parseInt reads a lower patch or none: "1.0.<MaxPatch>e1",
\* "1.0.0x<RegistryPatch>" and "1.0.Infinity"
CheckerVersions ==
  ManifestVersions
  \cup {VersionString(<<1, 0, RegistryPatch>>), VersionString(<<2, 0, 1>>), <<>>,
        <<Dec(1), Dec(0), Prefixed(MaxPatch)>>, <<Empty>>,
        <<Dec(1), Dec(0), Exponent(MaxPatch, 1)>>,
        <<Dec(1), Dec(0), Radix(RegistryPatch)>>,
        <<Dec(1), Dec(0), InfinityText>>}

\* the manifests the checker is run on: with and without an id key, and
\* files that are not JSON
CheckerManifests ==
  {[u \in Units |->
      IF u \in broken THEN NotJSON
      ELSE [id |-> IF u \in noId THEN undefined ELSE Str(ExtensionId(u)),
            version |-> vs[u], lastVersionCommit |-> NoCommit]] :
     vs \in [Units -> CheckerVersions], noId \in SUBSET Units,
     broken \in SUBSET Units}

\* one run of check-marketplace-version.mjs --manifest arg --publisher pubId
RunChecker(args, pubIds, responses) ==
  /\ pc = "idle"
  /\ \E arg \in args, pubId \in pubIds, resp \in responses :
       LET m == manifest[IF arg.kind = "file" THEN arg.unit ELSE 1]
           ran == arg.kind = "file"
           result == IF ran THEN checkExtension(m, pubId, resp)
                     ELSE NoCheck.result
       IN  check' = [kind |-> arg.kind, unit |-> arg.unit, publisherId |-> pubId,
                     lookupThrew |-> /\ ran
                                     /\ m # NotJSON
                                     /\ checkerLookupThrew(pubId, m.id, resp),
                     result |-> result,
                     exitCode |-> checkerExitCode(arg.kind, result)]
  /\ UNCHANGED <<counterFile, manifest, head, lastTouch, pc, runs, publisherId,
                 forceUpdate, gitAvailable, startCounter, versionCounter, idx,
                 results, last, counterWarning, prevRun, twin>>

InitCheck == InitRepo({[kind |-> "absent", n |-> 0]}, CheckerManifests)

NextCheck == RunChecker(CheckerArgs, PublisherIds, RegistryResponses)

SpecCheck == InitCheck /\ [][NextCheck]_vars

\* every kind of .version-counter: also one that cannot be read, one whose
\* text parseInt turns into NaN, and a negative number
CorruptCounterFiles ==
  {[kind |-> "unreadable", n |-> 0], [kind |-> "text", n |-> 0],
   [kind |-> "int", n |-> 0 - 2]}

\* a .version-counter of two digits, whose next values have two digits too
LongCounterFiles == {[kind |-> "int", n |-> 11 * MaxPatch]}

\* one run from any counter file, over manifests at "1.0" and at "1.0.-3"
\* (parseInt accepts a negative PATCH); units with a recorded commit are
\* skipped unless the update is forced
InitCounter ==
  InitWith(CounterFiles \cup CorruptCounterFiles \cup LongCounterFiles,
           {VersionString(<<1, 0>>), VersionString(<<1, 0, 0 - 3>>)},
           {NoCommit, 2})

NextCounterFile ==
  \/ StartRun({""}, BOOLEAN, {TRUE}, {{}}, 1)
  \/ ProcessUnit({[kind |-> "error", version |-> <<>>]}, {"ok"}, WriteOutcomes)
  \/ Finish

SpecCounter == InitCounter /\ [][NextCounterFile]_vars

\* ------------------------------------------- a run on a repository of its own
\* readdirSync(rootDir) filtered to the manifest files (lines 399-403). The
\* script does not sort the listing; Node on Linux returns the names in
\* file-name order (unit u's file sorts u-th), which is the order taken here
readdirSync(files) ==
  CHOOSE s \in [1..Cardinality(files) -> files] :
    \A i, j \in 1..Cardinality(files) : i < j => s[i] < s[j]

\* one iteration of the for loop in that execution (lines 415-431)
TwinProcessUnit ==
  /\ twin.pc = "running"
  /\ twin.idx <= Len(twin.manifestFiles)
  /\ LET u == twin.manifestFiles[twin.idx]
         r == updateManifestVersion(u, twin.manifest[u], twin.versionCounter,
                                    twin.publisherId, twin.forceUpdate,
                                    twin.gitAvailable, twin.head,
                                    twin.lastTouch[u], twin.registry[u], "ok")
     IN  twin' =
           IF r.outcome = "threw"
           THEN [twin EXCEPT !.pc = "aborted"]
           ELSE [twin EXCEPT
                   !.manifest[u] = r.manifest,
                   !.results = Append(@, r.result),
                   !.versionCounter = NextCounter(@, r.result),
                   !.counterFile =
                     IF r.result.updated
                     THEN writeVersionCounter(
                            NextCounter(twin.versionCounter, r.result), "ok", 0, @)
                     ELSE @,
                   !.idx = @ + 1]
  /\ UNCHANGED <<counterFile, manifest, head, lastTouch, pc, runs, publisherId,
                 forceUpdate, gitAvailable, startCounter, versionCounter, idx,
                 results, last, counterWarning, prevRun, check>>

\* that execution leaves its loop and prints its summary
TwinFinish ==
  /\ twin.pc = "running"
  /\ twin.idx > Len(twin.manifestFiles)
  /\ twin' = [twin EXCEPT !.pc = "done"]
  /\ UNCHANGED <<counterFile, manifest, head, lastTouch, pc, runs, publisherId,
                 forceUpdate, gitAvailable, startCounter, versionCounter, idx,
                 results, last, counterWarning, prevRun, check>>

\* ------------------------------------------- the Version Numbering example
\* extensions A, B and C of the example, in the order they are processed
ExampleUnits == 1..3

\* "Extension A current: 10.0.45", "B current: 10.0.52", "C current: 10.0.10"
ExampleVersions ==
  {VersionString(<<10, 0, 45>>), VersionString(<<10, 0, 52>>),
   VersionString(<<10, 0, 10>>)}

\* "Counter: 50", or no counter file yet
ExampleCounterFiles == {[kind |-> "int", n |-> 50], [kind |-> "absent", n |-> 0]}

\* the script is started with FORCE_VERSION_UPDATE=true and no PUBLISHER_ID
\* on a repository with three manifests at versions of the example
ExampleStart ==
  /\ pc = "idle"
  /\ twin.pc = "none"
  /\ \E file \in ExampleCounterFiles, vs \in [ExampleUnits -> ExampleVersions] :
       twin' = [pc |-> "running", publisherId |-> "", forceUpdate |-> TRUE,
                gitAvailable |-> TRUE, head |-> 2,
                lastTouch |-> [u \in ExampleUnits |-> 2],
                registry |-> [u \in ExampleUnits |->
                                [kind |-> "error", version |-> <<>>]],
                manifestFiles |-> readdirSync(ExampleUnits), idx |-> 1,
                manifest |-> [u \in ExampleUnits |->
                                [id |-> Str(ExtensionId(u)), version |-> vs[u],
                                 lastVersionCommit |-> NoCommit]],
                counterFile |-> file,
                startCounter |-> readVersionCounter(file),
                versionCounter |-> readVersionCounter(file),
                results |-> <<>>]
  /\ UNCHANGED <<counterFile, manifest, head, lastTouch, pc, runs, publisherId,
                 forceUpdate, gitAvailable, startCounter, versionCounter, idx,
                 results, last, counterWarning, prevRun, check>>

NextExample ==
  \/ ExampleStart
  \/ TwinProcessUnit
  \/ TwinFinish

SpecExample == InitRuns /\ [][NextExample]_vars

\* --------------------------------------------------------- the files lists
\* manifest.files as found on disk for unit u: not an array, or an array of
\* entries with paths under apps/ (twice the same app), elsewhere, the
\* manifest file itself, an empty path, no path at all
FilesLists(u) ==
  LET dist   == [path |-> <<"apps", ExtensionId(u), "dist">>]
      images == [path |-> <<"apps", ExtensionId(u), "images">>]
      static == [path |-> <<"static">>]
      self   == [path |-> <<ManifestFileName(u)>>]
      empty  == [path |-> <<"">>]
      nopath == [assetType |-> "dist"]
  IN  {[type |-> "object", items |-> <<>>]}
      \cup {[type |-> "array", items |-> items] :
              items \in {<<>>, <<dist>>, <<dist, images>>, <<dist, static>>,
                         <<self>>, <<empty>>, <<nopath>>, <<nopath, empty>>}}

\* manifests with and without a files key, each either never versioned or
\* versioned at the HEAD revision
PathsManifests ==
  {[u \in Units |->
      IF fs[u].type = "missing"
      THEN [id |-> Str(ExtensionId(u)), version |-> VersionString(<<1, 0>>),
            lastVersionCommit |-> cs[u]]
      ELSE [id |-> Str(ExtensionId(u)), version |-> VersionString(<<1, 0>>),
            lastVersionCommit |-> cs[u], files |-> fs[u]]] :
     fs \in {f \in [Units -> {[type |-> "missing", items |-> <<>>]}
                               \cup UNION {FilesLists(u) : u \in Units}] :
               \A u \in Units :
                 f[u].type = "missing" \/ f[u] \in FilesLists(u)},
     cs \in [Units -> {NoCommit, 2}]}

InitPaths == InitRepo({[kind |-> "absent", n |-> 0]}, PathsManifests)

NextPaths ==
  \/ StartRun({""}, {FALSE}, {TRUE}, {{}}, 1)
  \/ ProcessUnit({[kind |-> "error", version |-> <<>>]}, {"ok"}, {"ok"})
  \/ Finish

SpecPaths == InitPaths /\ [][NextPaths]_vars

\* the manifest files that differ from what the run found, which is what
\* was committed before it: the files `git add azure-devops-extension-*.json`
\* stages, those of the updated units and one a failed write has changed
ChangedManifests ==
  IF runs = 0 THEN {}
  ELSE {u \in DOMAIN manifest : manifest[u] # prevRun.manifest[u]}

\* the procedure of the troubleshooting guide: a repository the script has
\* never run on, a run, "commit the manifest updates", the next run.  The one
\* commit between two runs is the commit of the manifest files the run before
\* it has changed, so it touches the tracked paths (which include the
\* manifest file, lines 273-280) of the units that run updated and of a unit
\* whose manifest a failed write left cut off or rewritten; with no file
\* changed there is nothing to commit.
NextCommitted ==
  \/ StartRun({""}, {FALSE}, BOOLEAN, {ChangedManifests}, MaxRuns)
  \/ ProcessUnit({[kind |-> "error", version |-> <<>>]}, {"ok", "truncated"},
                 WriteOutcomes)
  \/ Finish

SpecCommitted == InitRuns /\ [][NextCommitted]_vars

\* one run over manifests whose id may be missing or malformed; every unit
\* has changes (no commit recorded), git and the file system work, so that
\* only the marketplace lookup varies
LookupManifests ==
  {[u \in Units |-> [id |-> ids[u], version |-> VersionString(<<1, 0, MaxPatch>>),
                     lastVersionCommit |-> NoCommit]] :
     ids \in {f \in [Units -> UNION {ManifestIds(u) : u \in Units}] :
                \A u \in Units : f[u] \in ManifestIds(u)}}

InitLookup == InitRepo(CounterFiles, LookupManifests)

NextLookup ==
  \/ StartRun(PublisherIds, {FALSE}, {TRUE}, {{}}, 1)
  \/ ProcessUnit(RegistryResponses, {"ok"}, {"ok"})
  \/ Finish

SpecLookup == InitLookup /\ [][NextLookup]_vars

\* ================================================================== claims
\* the integer a piece of a version string starts with, 0 without one
Leading(piece) ==
  IF piece.kind \in {"int", "prefixed", "exponent"} THEN piece.n ELSE 0

\* (major, minor, patch) of a manifest version, a missing PATCH counting as 0
VersionTuple(v) == <<Leading(v[1]), Leading(v[2]), CurrentPatch(v)>>

\* lexicographic order on triples
TupleGreater(x, y) ==
  \/ x[1] > y[1]
  \/ x[1] = y[1] /\ x[2] > y[2]
  \/ x[1] = y[1] /\ x[2] = y[2] /\ x[3] > y[3]

\* lexicographic order on (major, minor, patch)
VersionGreater(a, b) == TupleGreater(VersionTuple(a), VersionTuple(b))

\* a manifest updateManifestVersion cannot work on: not JSON, or with a
\* version that is missing or not MAJOR.MINOR[.PATCH] in integers
Malformed(m) == m = NotJSON \/ InvalidManifestVersion(m.version)

\* C1: for every unit a run has updated, the version now in its manifest is
\* the new version of its result and is strictly greater than the version
\* read at the start of the run, in (major, minor, patch) order with a
\* missing patch counting as 0.
C1_UpdatedVersionGreater ==
  \A i \in UpdatedUnits :
    /\ manifest[i].version = results[i].newVersion
    /\ VersionGreater(results[i].newVersion, results[i].oldVersion)

\* C1 witness: a unit whose own patch was at or above the counter was updated,
\* to its patch + 1
C1_Witness ==
  \E i \in UpdatedUnits :
    /\ Len(results[i].oldVersion) = 3
    /\ CurrentPatch(results[i].oldVersion) >= startCounter
    /\ CurrentPatch(results[i].newVersion) = CurrentPatch(results[i].oldVersion) + 1

\* C2: whenever the marketplace lookup of an updated unit returned a version
\* with the unit's major and minor and patch p, the patch written to the
\* unit's manifest is strictly greater than p.
C2_RegistryDominance ==
  (/\ last.outcome = "updated"
   /\ last.marketplaceVersion # <<>>
   /\ parseVersion(last.marketplaceVersion).major
        = VersionTuple(manifest[last.unit].version)[1]
   /\ parseVersion(last.marketplaceVersion).minor
        = VersionTuple(manifest[last.unit].version)[2])
  => CurrentPatch(manifest[last.unit].version) > parseVersion(last.marketplaceVersion).patch

\* C2 witness: the local floor equalled the published patch and the written
\* patch is the published patch + 1
C2_Witness ==
  /\ last.outcome = "updated"
  /\ last.marketplaceVersion = VersionString(<<1, 0, RegistryPatch>>)
  /\ Max(last.counter, last.currentPatch + 1) = RegistryPatch
  /\ manifest[last.unit].version = VersionString(<<1, 0, RegistryPatch + 1>>)

\* C3 (as claimed): within a run no two updated units receive the same
\* resulting patch value.
C3_DistinctPatches ==
  \A i, j \in UpdatedUnits :
    i # j => CurrentPatch(results[i].newVersion) # CurrentPatch(results[j].newVersion)

\* C4 (as claimed): no two different extensions are assigned the same version
\* number by the updater.
C4_UniqueVersions ==
  \A i, j \in UpdatedUnits :
    i # j => manifest[i].version # manifest[j].version

\* C5 (as claimed): after a unit is updated with resulting patch p, the
\* counter used for the next unit is p + 1, and so is the persisted counter
\* (when the counter file could be written).
C5_CounterFollowsPatch ==
  last.outcome = "updated" =>
    /\ versionCounter = last.patch + 1
    /\ ~counterWarning => counterFile = [kind |-> "int", n |-> last.patch + 1]

\* C6 (as claimed): in every run the counter the run ends with (the value
\* it writes) is at least the value read at the start and strictly greater
\* once a unit was updated; and from one state to the next, across runs, the
\* persisted counter never decreases.
C6_CounterNeverDecreases ==
  /\ [](pc # "idle" =>
          /\ versionCounter >= startCounter
          /\ UpdatedUnits # {} => versionCounter > startCounter)
  /\ [][readVersionCounter(counterFile') >= readVersionCounter(counterFile)]_vars

\* no commit after the recorded lastVersionCommit touches u's tracked paths
NoNewCommits(u) ==
  /\ manifest[u].lastVersionCommit \in 1..head
  /\ lastTouch[u] <= manifest[u].lastVersionCommit

\* C7 (as claimed): a unit whose tracked paths have no new commits is, with
\* forceUpdate false, left as it is by the run: its manifest is not written
\* and the counter does not advance on its account.
C7_NoNewCommitsUntouched ==
  [][(pc = "running" /\ idx <= NumUnits /\ ~forceUpdate /\ NoNewCommits(idx)) =>
       /\ manifest'[idx] = manifest[idx]
       /\ versionCounter' = versionCounter
       /\ counterFile' = counterFile]_vars

\* C7 (amended): the same when, in addition, the history query succeeds; and
\* processing a unit never writes the manifest of another unit, so the unit
\* stays untouched while others are updated before and after it.
C7_SkippedUnitUntouched ==
  [][(pc = "running" /\ idx <= NumUnits) =>
       /\ \A u \in Units \ {idx} : manifest'[u] = manifest[u]
       /\ (~forceUpdate /\ gitAvailable /\ NoNewCommits(idx)) =>
            /\ last'.outcome = "skipped"
            /\ manifest'[idx] = manifest[idx]
            /\ versionCounter' = versionCounter
            /\ counterFile' = counterFile]_vars

\* C7 witness: a completed run skipped a unit with no new commits and
\* updated another one
C7_Witness ==
  /\ pc = "done"
  /\ ~forceUpdate
  /\ gitAvailable
  /\ \E i, j \in 1..Len(results) :
       /\ ~results[i].updated
       /\ NoNewCommits(i)
       /\ manifest[i] = prevRun.manifest[i]
       /\ results[j].updated

\* a second (or later) run that started right after a completed run, with no
\* commit in between and forceUpdate false
RerunWithoutCommits ==
  /\ runs >= 2
  /\ pc # "idle"
  /\ prevRun.pc = "done"
  /\ prevRun.head = head
  /\ ~forceUpdate

\* the run has updated nothing: every result so far is a skip, no manifest
\* and no counter file was written, and the run did not abort
NothingUpdated ==
  /\ \A i \in 1..Len(results) : ~results[i].updated
  /\ manifest = prevRun.manifest
  /\ counterFile = prevRun.counterFile
  /\ pc # "aborted"
  /\ pc = "done" => Len(results) = NumUnits

\* C8 (as claimed): running twice in succession with no intervening commits
\* and forceUpdate false produces zero updates on the second run.
C8_SecondRunNoUpdates == RerunWithoutCommits => NothingUpdated

\* C8 (amended): the same provided git was available in both runs, so that
\* the first run recorded the head revision and the second could query it.
C8_SecondRunNoUpdatesWithGit ==
  (RerunWithoutCommits /\ prevRun.gitAvailable /\ gitAvailable) => NothingUpdated

\* C8 witness: the first run updated every unit, the second skipped them all
C8_Witness ==
  /\ RerunWithoutCommits
  /\ prevRun.gitAvailable
  /\ gitAvailable
  /\ pc = "done"
  /\ \A u \in Units : manifest[u].lastVersionCommit = head /\ Len(manifest[u].version) = 3
  /\ \A i \in 1..Len(results) : ~results[i].updated

\* C9: when writing a unit's manifest fails the run aborts in that step, no
\* result is recorded and neither the counter in memory nor the counter file
\* changes; the manifests of the other units stay as they are, and the
\* unit's own is as it was, cut off, or rewritten with the new version.
C9_ManifestWriteFailureAborts ==
  [][(pc = "running" /\ last'.writeFailed) =>
       /\ pc' = "aborted"
       /\ results' = results
       /\ versionCounter' = versionCounter
       /\ counterFile' = counterFile
       /\ \A u \in DOMAIN manifest \ {idx} : manifest'[u] = manifest[u]
       /\ \/ manifest'[idx] = manifest[idx]
          \/ manifest'[idx] = NotJSON
          \/ /\ CurrentPatch(manifest'[idx].version) = last'.patch
             /\ VersionGreater(manifest'[idx].version, manifest[idx].version)]_vars

\* C9 witness: the run aborted on a failed manifest write, which left the
\* manifest cut off, after an earlier unit had been updated; the counter
\* stands at what that unit left
C9_Witness ==
  /\ pc = "aborted"
  /\ last.writeFailed
  /\ last.unit = 2
  /\ manifest[2] = NotJSON
  /\ UpdatedUnits = {1}
  /\ versionCounter = startCounter + 1
  /\ ~counterWarning
  /\ counterFile = [kind |-> "int", n |-> startCounter + 1]

\* C10 (as claimed): at the end of every run the persisted counter has been
\* advanced once for each unit whose manifest was persisted with its new
\* version, and for no other.
C10_CounterAndManifestTogether ==
  pc \in {"done", "aborted"} =>
    readVersionCounter(counterFile) = startCounter + Cardinality(UpdatedUnits)

\* C10 (amended): the counter in memory has been advanced once for each unit
\* whose call wrote its manifest and returned, and for no other; the
\* persisted counter is never ahead of it and equals it unless the last
\* counter write failed; every other manifest is as the run found it, but
\* for the one whose write failed and ended the run.
C10_CounterNeverAheadOfManifests ==
  pc # "idle" =>
    /\ versionCounter = startCounter + Cardinality(UpdatedUnits)
    /\ readVersionCounter(counterFile) <= versionCounter
    /\ ~counterWarning => readVersionCounter(counterFile) = versionCounter
    /\ \A u \in DOMAIN manifest :
         IF u \in UpdatedUnits
         THEN /\ manifest[u].version = results[u].newVersion
              /\ manifest[u].version # prevRun.manifest[u].version
         ELSE manifest[u] # prevRun.manifest[u] =>
                (pc = "aborted" /\ last.unit = u /\ last.writeFailed)

\* C10 witness: a completed run persisted a manifest but the counter file
\* holds less than the counter the run ended with
C10_Witness ==
  /\ pc = "done"
  /\ UpdatedUnits # {}
  /\ counterWarning
  /\ readVersionCounter(counterFile) < versionCounter

\* the git log of unit u is run and throws: a commit is recorded, the update is
\* not forced, and git cannot be run or does not know the recorded commit
HistoryQueryFails(u) ==
  /\ ~InvalidManifestVersion(manifest[u].version)
  /\ ~forceUpdate
  /\ manifest[u].lastVersionCommit # NoCommit
  /\ (~gitAvailable \/ manifest[u].lastVersionCommit \notin 1..head)

\* C11: when the history query of the unit being processed fails, the unit is
\* treated as changed and goes on to version computation and the manifest
\* write: it is never skipped, and the run goes on with the unit updated
\* (its version raised, the counter advanced) unless that write itself fails.
C11_HistoryFailureFailsOpen ==
  [][(pc = "running" /\ idx <= NumUnits /\ HistoryQueryFails(idx)) =>
       /\ last'.hasChanges
       /\ last'.outcome # "skipped"
       /\ last'.patch >= Max(versionCounter, CurrentPatch(manifest[idx].version) + 1)
       /\ \/ last'.writeFailed
          \/ /\ pc' = "running"
             /\ last'.outcome = "updated"
             /\ results'[idx].updated
             /\ VersionGreater(manifest'[idx].version, manifest[idx].version)
             /\ versionCounter' = versionCounter + 1]_vars

\* C11 witness: git could not be run, yet a unit with a recorded commit and
\* no new commits was updated and the run completed
C11_Witness ==
  /\ pc = "done"
  /\ ~gitAvailable
  /\ ~forceUpdate
  /\ \E i \in UpdatedUnits :
       /\ prevRun.manifest[i].lastVersionCommit = head
       /\ lastTouch[i] <= head
       /\ VersionGreater(manifest[i].version, prevRun.manifest[i].version)

\* C12 (as claimed): when PUBLISHER_ID is set and the marketplace reports a
\* published version for an updated unit, the version written for the unit is
\* strictly higher than the marketplace version, as the marketplace checker
\* compares them.
C12_MarketplaceAlwaysRespected ==
  (/\ last.outcome = "updated"
   /\ publisherId # ""
   /\ last.marketplaceVersion # <<>>)
  => compareVersions(manifest[last.unit].version, last.marketplaceVersion) = 1

\* an identifier with a character outside letters, digits, hyphen, underscore
HasBadCharacter(id) == id # "" /\ id \notin ValidIds

\* the last lookup could not determine the published version: an identifier
\* failed validation, or tfx failed or printed something that does not parse
LookupUnknown ==
  /\ last.hasChanges
  /\ \/ last.lookupThrew
     \/ /\ publisherId # ""
        /\ ~Falsy(manifest[last.unit].id)
        /\ \/ HasBadCharacter(publisherId)
           \/ HasBadCharacter(String(manifest[last.unit].id))

\* the last lookup ran tfx and its answer lists no published version
LookupNotPublished ==
  /\ last.tfxInvoked
  /\ ~last.lookupThrew
  /\ last.marketplaceVersion = <<>>

\* the local floor of the last call: max(counter, patch + 1)
LocalFloor == Max(last.counter, last.currentPatch + 1)

\* C13 (as claimed): a lookup that could not be determined falls back to the
\* local floor and a warning is recorded for it; no warning is recorded for
\* a unit that is not published.
C13_UnknownNotAsNotPublished ==
  /\ LookupUnknown =>
       /\ last.patch = LocalFloor
       /\ last.lookupWarning
  /\ LookupNotPublished => ~last.lookupWarning

\* C14: when PUBLISHER_ID or the unit's id has a character outside letters,
\* digits, hyphen and underscore, tfx is not run for the unit, the lookup
\* yields no version, and the unit is updated with the local floor as patch.
C14_InvalidIdNoLookup ==
  (/\ last.hasChanges
   /\ \/ HasBadCharacter(publisherId)
      \/ HasBadCharacter(String(manifest[last.unit].id)))
  => /\ ~last.tfxInvoked
     /\ last.marketplaceVersion = <<>>
     /\ last.patch = LocalFloor
     /\ last.outcome = "updated"
     /\ manifest[last.unit].version = VersionString(<<1, 0, LocalFloor>>)

\* C14 witness: a valid PUBLISHER_ID and a unit id the pattern rejects; the
\* unit before it was looked up and raised to the marketplace floor
C14_Witness ==
  /\ publisherId = "my-publisher"
  /\ last.unit = 2
  /\ HasBadCharacter(String(manifest[2].id))
  /\ last.outcome = "updated"
  /\ ~last.tfxInvoked
  /\ CurrentPatch(manifest[2].version) = LocalFloor
  /\ CurrentPatch(manifest[1].version) = RegistryPatch + 1

\* C15: when tfx fails or its output cannot be decoded or parsed, the lookup
\* yields no version and nothing is raised: the unit's patch is the local
\* floor max(counter, patch + 1), and the unit is updated with it and the run
\* goes on, unless the manifest write itself fails.
C15_LookupFailureDegrades ==
  last.lookupThrew =>
    /\ last.tfxInvoked
    /\ last.marketplaceVersion = <<>>
    /\ last.patch = LocalFloor
    /\ last.outcome = "updated" \/ last.writeFailed
    /\ last.outcome = "updated" =>
         /\ pc # "aborted"
         /\ results[last.unit].updated
         /\ CurrentPatch(manifest[last.unit].version) = LocalFloor

\* C15 witness: the lookup of the second unit failed after the first had been
\* raised to the marketplace floor; the run completed with both updated
C15_Witness ==
  /\ pc = "done"
  /\ last.unit = 2
  /\ last.lookupThrew
  /\ UpdatedUnits = {1, 2}
  /\ CurrentPatch(manifest[1].version) = RegistryPatch + 1
  /\ CurrentPatch(manifest[2].version) = LocalFloor

\* C16 (as claimed): in a run without forceUpdate that follows a completed
\* run and the commit of that run's manifest updates, a unit whose recorded
\* commit is the revision the previous run saw, and whose only commit since
\* is the one recording its version update, is skipped.
C16_VersionCommitIsNoChange ==
  (/\ runs >= 2
   /\ prevRun.pc = "done"
   /\ ~forceUpdate
   /\ gitAvailable
   /\ head = prevRun.head + 1)
  => \A i \in 1..Len(results) :
       prevRun.manifest[i].lastVersionCommit = prevRun.head => ~results[i].updated

CheckerError == check.kind \in {"absent", "nofile"} \/ check.result.threw

\* the checker obtained a published version from the marketplace
CheckerPublished == check.kind = "file" /\ check.result.marketplaceVersion # <<>>

\* the number a piece of a version string denotes as a numeric literal, 0
\* when it denotes none
NumericValue(piece) ==
  CASE piece.kind \in {"int", "radix"} -> piece.n
    [] piece.kind = "exponent" -> piece.n * 10^piece.e
    [] piece.kind = "infinity" -> Infinity
    [] OTHER -> 0

\* (major, minor, patch) of a version string for the checker: a piece that
\* is missing or is no numeric literal counts as 0
NumericTuple(v) ==
  [i \in 1..3 |-> IF i <= Len(v) THEN NumericValue(v[i]) ELSE 0]

\* the local version is higher than / equal to / lower than the published one
CheckerLocalHigher ==
  /\ CheckerPublished
  /\ manifest[check.unit].version # <<>>
  /\ TupleGreater(NumericTuple(manifest[check.unit].version),
                  NumericTuple(check.result.marketplaceVersion))

CheckerVersionsEqual ==
  /\ CheckerPublished
  /\ manifest[check.unit].version # <<>>
  /\ NumericTuple(manifest[check.unit].version)
       = NumericTuple(check.result.marketplaceVersion)

CheckerLocalLower ==
  /\ CheckerPublished
  /\ manifest[check.unit].version # <<>>
  /\ TupleGreater(NumericTuple(check.result.marketplaceVersion),
                  NumericTuple(manifest[check.unit].version))

\* C18 (as claimed): the checker exits 0 exactly when publishing is needed
\* (local version higher than the marketplace version, extension not yet
\* published, or marketplace version not determined), exits 1 exactly when
\* the local and marketplace versions are equal, and exits 2 on an error.
C18_CheckerExitCodes ==
  check.kind # "none" =>
    /\ check.exitCode = 0 <=>
         (~CheckerError /\ (CheckerLocalHigher \/ ~CheckerPublished))
    /\ check.exitCode = 1 <=> (~CheckerError /\ CheckerVersionsEqual)
    /\ CheckerError => check.exitCode = 2

\* C18 (amended): the checker exits 0 exactly when publishing is needed (as
\* above), exits 1 exactly when publishing is not needed, that is when the
\* local version is equal to or lower than the marketplace version, and
\* exits 2 exactly when an error occurred.
C18_CheckerExitOneWhenNotNewer ==
  check.kind # "none" =>
    /\ check.exitCode \in {0, 1, 2}
    /\ check.exitCode = 0 <=>
         (~CheckerError /\ (CheckerLocalHigher \/ ~CheckerPublished))
    /\ check.exitCode = 1 <=>
         (~CheckerError /\ (CheckerVersionsEqual \/ CheckerLocalLower))
    /\ check.exitCode = 2 <=> CheckerError
    /\ check.exitCode = 0 <=> (~CheckerError /\ check.result.needsPublish)

\* C18 witness: the marketplace has a higher patch than the manifest: the
\* checker reported the local version as older and exited with 1
C18_Witness ==
  /\ check.exitCode = 1
  /\ check.result.marketplaceVersion = VersionString(<<1, 0, RegistryPatch>>)
  /\ manifest[check.unit].version = VersionString(<<1, 0, MaxPatch>>)
  /\ CheckerLocalLower
  /\ check.result.reason = "Local version is older (downgrade not allowed)"

\* C19: the patch written for an updated unit is rPatch + 1 when the lookup
\* returned a version with the unit's major and minor and
\* max(counter, patch + 1) <= rPatch, and max(counter, patch + 1) in every
\* other case: PUBLISHER_ID absent, identifier rejected, lookup failed, unit
\* not published, or a different major or minor.  counter is the start
\* value plus the units updated before this one, patch the one the run found.
C19_PatchFormula ==
  last.outcome = "updated" =>
    LET u == last.unit
        old == VersionTuple(prevRun.manifest[u].version)
        counter == startCounter + Cardinality({i \in UpdatedUnits : i < u})
        floor == Max(counter, old[3] + 1)
        r == IF last.marketplaceVersion = <<>> THEN <<>>
             ELSE VersionTuple(last.marketplaceVersion)
        registryFloor ==
          /\ r # <<>>
          /\ r[1] = old[1]
          /\ r[2] = old[2]
          /\ floor <= r[3]
    IN  /\ manifest[u].version =
             VersionString(<<old[1], old[2],
                             IF registryFloor THEN r[3] + 1 ELSE floor>>)
        /\ (publisherId = "" \/ HasBadCharacter(publisherId) \/ last.lookupThrew)
             => (r = <<>> /\ CurrentPatch(manifest[u].version) = floor)

\* C19 witness: the marketplace has a higher patch under another major; the
\* unit was written with the local floor
C19_Witness ==
  /\ last.outcome = "updated"
  /\ last.marketplaceVersion = VersionString(<<2, 0, RegistryPatch>>)
  /\ VersionTuple(manifest[last.unit].version)[1] = 1
  /\ CurrentPatch(manifest[last.unit].version) = LocalFloor
  /\ LocalFloor < RegistryPatch

\* C20: the counter goes up by exactly 1 for each unit that is updated and
\* stays for a skipped one, whatever patch the unit received: at the end of
\* a completed run it is the starting value plus the number of updated
\* units, and that is the value in the counter file when the last write of
\* the file succeeded.
C20_CounterPlusOnePerUpdate ==
  /\ last.outcome = "updated" => versionCounter = last.counter + 1
  /\ last.outcome = "skipped" => versionCounter = last.counter
  /\ pc = "done" =>
       /\ versionCounter = startCounter + Cardinality(UpdatedUnits)
       /\ (UpdatedUnits # {} /\ ~counterWarning) =>
            counterFile = [kind |-> "int", n |-> startCounter + Cardinality(UpdatedUnits)]
       /\ UpdatedUnits = {} => counterFile = prevRun.counterFile

\* C20 witness: a completed run updated every unit, the first to a patch
\* well above the counter; the counter ended at start + NumUnits, still not
\* above that patch
C20_Witness ==
  /\ pc = "done"
  /\ UpdatedUnits = Units
  /\ CurrentPatch(results[1].newVersion) > startCounter + 1
  /\ versionCounter = startCounter + NumUnits
  /\ versionCounter <= CurrentPatch(results[1].newVersion)
  /\ counterFile = [kind |-> "int", n |-> versionCounter]

\* the skip condition of unit u: no force, a recorded commit, a history query
\* that succeeds and reports no commit on u's tracked paths after it
SkipCondition(u) ==
  /\ ~forceUpdate
  /\ manifest[u].lastVersionCommit # NoCommit
  /\ gitAvailable
  /\ manifest[u].lastVersionCommit \in 1..head
  /\ lastTouch[u] <= manifest[u].lastVersionCommit

\* C21: a unit (with a well-formed version) is skipped if and only if
\* forceUpdate is false, a lastVersionCommit is recorded, the history query
\* succeeds and reports no commit after it; a skipped unit's manifest stays
\* as it is; in every other case the unit is updated, its manifest rewritten
\* with a higher version (unless that write fails, which ends the run).
C21_SkippedIffNoChanges ==
  [][(/\ pc = "running"
      /\ idx <= NumUnits
      /\ ~InvalidManifestVersion(manifest[idx].version)) =>
       /\ last'.outcome = "skipped" <=> SkipCondition(idx)
       /\ last'.hasChanges <=> ~SkipCondition(idx)
       /\ SkipCondition(idx) =>
            /\ manifest' = manifest
            /\ ~results'[idx].updated
            /\ pc' = "running"
       /\ ~SkipCondition(idx) =>
            \/ last'.writeFailed /\ pc' = "aborted"
            \/ /\ last'.outcome = "updated"
               /\ results'[idx].updated
               /\ VersionGreater(manifest'[idx].version, manifest[idx].version)]_vars

\* C21 witness: in one completed run without force and with git available,
\* the first unit had a commit after its recorded one and was updated, the
\* second had none and was skipped
C21_Witness ==
  /\ pc = "done"
  /\ ~forceUpdate
  /\ gitAvailable
  /\ NumUnits >= 2
  /\ prevRun.manifest[1].lastVersionCommit = 1
  /\ lastTouch[1] = 2
  /\ results[1].updated
  /\ prevRun.manifest[2].lastVersionCommit = 2
  /\ ~results[2].updated
  /\ manifest[2] = prevRun.manifest[2]

\* the state of unit u in the current run: Skipped or Updated once its result
\* is in results, Failed when the run aborted in it, Pending otherwise
UnitState(u) ==
  IF u <= Len(results)
  THEN IF results[u].updated THEN "Updated" ELSE "Skipped"
  ELSE IF pc = "aborted" /\ last.outcome = "threw" /\ last.unit = u THEN "Failed"
  ELSE "Pending"

\* C22: within a run a unit that has left Pending keeps its state and its
\* manifest for the rest of the run; only the unit at the loop position
\* leaves Pending, one per step; a manifest is written only in the step that
\* takes its unit out of Pending, and for a unit that becomes Failed only
\* when it is the write of the manifest that failed; a call that throws makes
\* its unit Failed and ends the run in the same step, the units after it
\* staying Pending with their manifests as the run found them.
C22_UnitStateMachine ==
  /\ []((pc = "aborted" /\ Len(manifest) > 0) =>
          /\ UnitState(last.unit) = "Failed"
          /\ \A u \in DOMAIN manifest :
               /\ u < last.unit => UnitState(u) \in {"Skipped", "Updated"}
               /\ u > last.unit =>
                    UnitState(u) = "Pending" /\ manifest[u] = prevRun.manifest[u])
  /\ [][pc = "running" =>
          /\ last'.outcome = "threw" =>
               /\ pc' = "aborted"
               /\ idx' = idx
               /\ manifest'[idx] # manifest[idx] => last'.writeFailed
          /\ \A u \in DOMAIN manifest :
               /\ UnitState(u) # "Pending" =>
                    UnitState(u)' = UnitState(u) /\ manifest'[u] = manifest[u]
               /\ (UnitState(u) = "Pending" /\ UnitState(u)' # "Pending") => u = idx
               /\ manifest'[u] # manifest[u] =>
                    /\ UnitState(u) = "Pending"
                    /\ UnitState(u)' \in {"Updated", "Failed"}]_vars

\* C22 witness: the run failed in its first unit, whose manifest the failed
\* write left cut off; the second is still Pending and its manifest is as the
\* run found it
C22_Witness ==
  /\ pc = "aborted"
  /\ Len(manifest) >= 2
  /\ UnitState(1) = "Failed"
  /\ last.writeFailed
  /\ manifest[1] = NotJSON
  /\ UnitState(2) = "Pending"
  /\ manifest[2] = prevRun.manifest[2]
  /\ ~Malformed(manifest[2])

\* C23 (as claimed): every unit updated in the run has, in its manifest,
\* lastVersionCommit equal to the head revision of the run.
C23_UpdatedRecordsHead ==
  \A i \in UpdatedUnits : manifest[i].lastVersionCommit = head

\* C23 (amended): every unit updated in a run in which git rev-parse HEAD
\* succeeds has lastVersionCommit equal to the head revision; when it fails
\* the updated manifest keeps the lastVersionCommit it had (or none); a
\* skipped unit keeps its own in either case.
C23_UpdatedRecordsHeadWhenKnown ==
  \A i \in 1..Len(results) :
    manifest[i].lastVersionCommit =
      IF results[i].updated /\ gitAvailable THEN head
      ELSE prevRun.manifest[i].lastVersionCommit

\* C23 witness: a unit recorded at revision 1, with a commit after it, was
\* updated and now records the head revision 2
C23_Witness ==
  /\ gitAvailable
  /\ ~forceUpdate
  /\ \E i \in UpdatedUnits :
       /\ prevRun.manifest[i].lastVersionCommit = 1
       /\ head = 2
       /\ manifest[i].lastVersionCommit = 2

\* C24: whatever the counter file holds, the counter a run reads is a
\* positive integer: the file's number when that is positive, 1 otherwise;
\* the counter stays >= 1 through the run, every call is given a counter
\* >= 1, every patch written is >= 1, and what the run writes to the counter
\* file is an integer >= 2 (the file holds it when the last write succeeded);
\* a write that failed leaves the file as it was, empty, or holding leading
\* digits of that integer, which read as a counter >= 1.
C24_CounterPositive ==
  pc # "idle" =>
    /\ startCounter =
         IF prevRun.counterFile.kind = "int" /\ prevRun.counterFile.n > 0
         THEN prevRun.counterFile.n ELSE 1
    /\ startCounter >= 1
    /\ versionCounter >= 1
    /\ last.outcome # "none" => last.counter >= 1
    /\ \A i \in UpdatedUnits :
         CurrentPatch(results[i].newVersion) >= 1 /\ CurrentPatch(manifest[i].version) >= 1
    /\ UpdatedUnits # {} => versionCounter >= 2
    /\ (counterFile # prevRun.counterFile /\ ~counterWarning) =>
         counterFile.kind = "int" /\ counterFile.n >= 2
    /\ counterFile # prevRun.counterFile =>
         \/ counterFile.kind = "text"
         \/ counterFile.kind = "int" /\ counterFile.n \in 1..versionCounter
    /\ readVersionCounter(counterFile) >= 1

\* C24 witness: the counter file held a negative number and the manifest a
\* negative patch; the unit was written with patch 1 and the file now holds 2
C24_Witness ==
  /\ prevRun.counterFile = [kind |-> "int", n |-> 0 - 2]
  /\ prevRun.manifest[1].version = VersionString(<<1, 0, 0 - 3>>)
  /\ results # <<>>
  /\ results[1].updated
  /\ manifest[1].version = VersionString(<<1, 0, 1>>)
  /\ counterFile = [kind |-> "int", n |-> 2]

\* the units the summary lists as skipped
SkippedUnits == {i \in 1..Len(results) : ~results[i].updated}

\* C25: the summary is printed only when the loop has gone through every
\* manifest and never after a unit failed; it then holds one entry per
\* manifest, in order, with the version the unit had before the run and the
\* version it has now, a skipped unit's two versions are equal, and the
\* updated and skipped counts add up to the number of manifests.
C25_SummaryAfterAllUnits ==
  /\ [](pc = "done" =>
         /\ Len(results) = Len(manifest)
         /\ \A i \in DOMAIN manifest :
              /\ results[i].extensionId = manifest[i].id
              /\ results[i].oldVersion = prevRun.manifest[i].version
              /\ results[i].newVersion = manifest[i].version
              /\ ~InvalidManifestVersion(results[i].oldVersion)
              /\ ~results[i].updated => results[i].newVersion = results[i].oldVersion
         /\ Cardinality(UpdatedUnits) + Cardinality(SkippedUnits) = Len(manifest))
  /\ [][pc' = "done" =>
         /\ pc \in {"running", "done"}
         /\ idx > Len(manifest)
         /\ last.outcome # "threw"]_vars

\* C25 witness: a finished run whose summary lists unit 1 as updated and unit
\* 2 as skipped at its old version
C25_Witness ==
  /\ pc = "done"
  /\ Len(results) = NumUnits
  /\ results[1].updated
  /\ results[1].newVersion # results[1].oldVersion
  /\ ~results[2].updated
  /\ results[2].newVersion = prevRun.manifest[2].version

\* the run of the Version Numbering example has finished: counter 50,
\* extensions at 10.0.45, 10.0.52 and 10.0.10 in this order, all updated
ExampleRan ==
  /\ twin.pc = "done"
  /\ twin.startCounter = 50
  /\ Len(twin.results) = 3
  /\ \A i \in ExampleUnits : twin.results[i].updated
  /\ twin.results[1].oldVersion = VersionString(<<10, 0, 45>>)
  /\ twin.results[2].oldVersion = VersionString(<<10, 0, 52>>)
  /\ twin.results[3].oldVersion = VersionString(<<10, 0, 10>>)

\* C27 as stated: the example ends with patches 50, 53 and 50 and with the
\* counter at 53.
C27_ExamplePatches ==
  ExampleRan =>
    /\ twin.results[1].newVersion = VersionString(<<10, 0, 50>>)
    /\ twin.results[2].newVersion = VersionString(<<10, 0, 53>>)
    /\ twin.results[3].newVersion = VersionString(<<10, 0, 50>>)
    /\ twin.versionCounter = 53

\* C27 amended: the example ends with patches 50, 53 and 52 (the third
\* extension is computed from the counter advanced twice, max(52, 10 + 1))
\* and with the counter at 53, in memory and in the counter file.
C27_ExamplePatchesFromAdvancedCounter ==
  ExampleRan =>
    /\ twin.results[1].newVersion = VersionString(<<10, 0, 50>>)
    /\ twin.results[2].newVersion = VersionString(<<10, 0, 53>>)
    /\ twin.results[3].newVersion = VersionString(<<10, 0, 52>>)
    /\ twin.versionCounter = 53
    /\ twin.counterFile = [kind |-> "int", n |-> 53]

\* C27 witness: the example has run and its manifests hold the new versions
C27_Witness ==
  /\ ExampleRan
  /\ twin.manifest[3].version = twin.results[3].newVersion
  /\ twin.manifest[2].version = VersionString(<<10, 0, 53>>)

\* the files list of a manifest yields no path
NoFilesPaths(m) == getExtensionPaths(m) = {}

\* C28: for every manifest the tracked paths contain the manifest's own path
\* and are not empty; a call of updateManifestVersion on a manifest with a
\* well-formed version never throws for want of paths: it ends updated or
\* skipped, with the paths it tracked holding the manifest file, and exactly
\* the manifest file when the files list is missing, empty or without
\* usable paths.
C28_ManifestPathAlwaysTracked ==
  /\ [](\A u \in Units :
          /\ manifestRepoPath(u) \in extensionPaths(manifest[u], u)
          /\ extensionPaths(manifest[u], u) # {})
  /\ [][(pc = "running" /\ idx <= NumUnits) =>
         /\ last'.outcome \in {"updated", "skipped"}
         /\ pc' = "running"
         /\ manifestRepoPath(idx) \in last'.extensionPaths
         /\ NoFilesPaths(manifest[idx]) =>
              last'.extensionPaths = {manifestRepoPath(idx)}
         /\ last'.hasChanges <=>
              (manifest[idx].lastVersionCommit = NoCommit
               \/ lastTouch[idx] > manifest[idx].lastVersionCommit)]_vars

\* C28 witness: unit 1 has no files key and was never versioned, unit 2 has
\* an empty files list and was versioned at HEAD; unit 1 was updated and unit
\* 2 skipped, both tracked on the manifest file alone
C28_Witness ==
  /\ pc = "done"
  /\ "files" \notin DOMAIN manifest[1]
  /\ results[1].updated
  /\ "files" \in DOMAIN manifest[2]
  /\ manifest[2].files = [type |-> "array", items |-> <<>>]
  /\ ~results[2].updated
  /\ last.extensionPaths = {manifestRepoPath(2)}

\* the units updated before the run aborted kept their new versions
AbortKeepsUpdates ==
  \A i \in UpdatedUnits :
    /\ manifest[i].version = results[i].newVersion
    /\ VersionGreater(manifest[i].version, prevRun.manifest[i].version)

\* C29 as stated: after an abort the units updated before it keep their new
\* versions, and the counter file holds the starting counter plus the number
\* of those units.
C29_AbortKeepsUpdatesAndCounter ==
  pc = "aborted" =>
    /\ AbortKeepsUpdates
    /\ readVersionCounter(counterFile) = startCounter + Cardinality(UpdatedUnits)

\* C29 amended: after an abort the units updated before it keep their new
\* versions and the counter in memory is the starting counter plus the
\* number of those units; the counter file holds that value unless the last
\* write of the counter file failed, and then it holds that value or less;
\* every other manifest is as the run found it, except that of the unit whose
\* manifest write failed.
C29_AbortKeepsUpdatesCounterIfWritten ==
  pc = "aborted" =>
    /\ AbortKeepsUpdates
    /\ \A u \in DOMAIN manifest \ UpdatedUnits :
         manifest[u] # prevRun.manifest[u] => (u = last.unit /\ last.writeFailed)
    /\ versionCounter = startCounter + Cardinality(UpdatedUnits)
    /\ ~counterWarning => readVersionCounter(counterFile) = versionCounter
    /\ counterWarning => readVersionCounter(counterFile) <= versionCounter

\* C29 witness: unit 1 was updated and the counter written, then unit 2
\* failed: unit 1 keeps its new version and the counter file holds start + 1
C29_Witness ==
  /\ pc = "aborted"
  /\ last.unit = 2
  /\ UpdatedUnits = {1}
  /\ ~counterWarning
  /\ manifest[1].version # prevRun.manifest[1].version
  /\ counterFile = [kind |-> "int", n |-> startCounter + 1]

\* the counter file is behind the manifests: some manifest already holds a
\* patch at or above the counter the run read from the file
StaleCounter ==
  \E u \in Units : CurrentPatch(prevRun.manifest[u].version) >= startCounter

\* the numbers the leading digits of the decimal text of n > 0 denote
DecimalPrefixes(n) == {n \div 10^k : k \in 0..9} \ {0}

\* C30: a failed write of the counter file does not end the run: the unit
\* counts as updated, the loop goes on, the counter in memory is advanced all
\* the same and is what the next call is given; and in every run, also one
\* that read a stale counter file, each updated unit gets a patch strictly
\* above the patch it had.
C30_CounterWriteFailureNotFatal ==
  /\ [][(pc = "running" /\ idx <= NumUnits) =>
         /\ last'.counter = versionCounter
         /\ (Len(results') > Len(results) /\ results'[idx].updated /\ counterWarning') =>
              /\ pc' = "running"
              /\ idx' = idx + 1
              /\ versionCounter' = versionCounter + 1
              /\ counterFile' \in
                   {counterFile, [kind |-> "text", n |-> 0]}
                   \cup {[kind |-> "int", n |-> n] : n \in DecimalPrefixes(versionCounter')}
              /\ readVersionCounter(counterFile') <= versionCounter']_vars
  /\ [](\A i \in UpdatedUnits :
          /\ CurrentPatch(results[i].newVersion) > CurrentPatch(results[i].oldVersion)
          /\ CurrentPatch(results[i].newVersion) > CurrentPatch(prevRun.manifest[i].version)
          /\ CurrentPatch(results[i].newVersion) >= startCounter)

\* C30 witness: the first run updated unit 1 to patch 1, could not write the
\* counter file and still exited 0; the second run read counter 1 again,
\* failed to write it again, and updated unit 1 to patch 2 and unit 2 from
\* the counter advanced in memory, exiting 0
C30_Witness ==
  /\ runs = 2
  /\ pc = "done"
  /\ ExitCode(pc) = 0
  /\ prevRun.pc = "done"
  /\ prevRun.counterFile.kind = "absent"
  /\ prevRun.manifest[1].version = VersionString(<<1, 0, 1>>)
  /\ StaleCounter
  /\ startCounter = 1
  /\ counterWarning
  /\ UpdatedUnits = Units
  /\ manifest[1].version = VersionString(<<1, 0, 2>>)
  /\ CurrentPatch(manifest[2].version) >= 2
  /\ versionCounter = 3
  /\ counterFile.kind = "absent"

====
